---- MODULE Spec2Model ----
(***************************************************************************)
(* websitewatcher: one batch run of app.run (src/main.go) over the watch   *)
(* list, the goroutine it starts per enabled watch, app.processWatch, and  *)
(* HTTPClient.GetRequest / fetchURL (src/internal/http/http.go).           *)
(*                                                                         *)
(* Byte slices are records [isNil, data]: Go distinguishes a nil slice     *)
(* from an empty one (lastContent == nil) while bytes.Equal does not.      *)
(* Headers and request durations only feed the text of e-mails and are     *)
(* left out. The packages config, database, mail and diff are used through *)
(* the calls main.go makes on them.                                        *)
(***************************************************************************)
EXTENDS Integers, Sequences, FiniteSets, TLC

\* ------------------------------------------------------------------ bounds
\* largest configured number of fetch attempts per watch
MaxRetries == 2
\* largest configured number of parallel checks
MaxParallel == 2

\* ------------------------------------------------------------- byte slices
NilBytes == [isNil |-> TRUE, data |-> <<>>]

Bytes(s) == [isNil |-> FALSE, data |-> s]

\* bytes.Equal: compares lengths and contents, nil equals empty
BytesEqual(x, y) == x.data = y.data

\* bytes.Contains(b, sub)
Contains(b, sub) ==
    \E k \in 0..(Len(b) - Len(sub)) :
        \A j \in 1..Len(sub) : b[k + j] = sub[j]

\* the three soft-error signatures of isSoftError, one symbol per word
Sig504 == <<"504", "Gateway Time-out">>

Sig404 == <<"404", "Not Found">>

Sig503 == <<"503", "Service Unavailable">>

isSoftError(body) ==
    IF Len(body) = 0 THEN FALSE
    ELSE Contains(body, Sig504) \/ Contains(body, Sig404) \/ Contains(body, Sig503)

\* ------------------------------------------------------------------ errors
\* a nil map[string][]string
NoHeader == <<>>

NoErr == [kind |-> "nil", StatusCode |-> 0, Header |-> NoHeader, Body |-> NilBytes]

InvalidResponseError(status, header, body) ==
    [kind |-> "invalid", StatusCode |-> status, Header |-> header, Body |-> Bytes(body)]

\* *url.Error with Timeout() true
TimeoutErr == [kind |-> "timeout", StatusCode |-> 0, Header |-> NoHeader, Body |-> NilBytes]

\* the error of io.ReadAll when the client's Timeout expires while the body
\* is read: net/http gives it Timeout() true, but it is no *url.Error
ReadTimeoutErr == [kind |-> "readtimeout", StatusCode |-> 0, Header |-> NoHeader, Body |-> NilBytes]

\* ctx.Err() of a cancelled context: context.Canceled
CanceledErr == [kind |-> "canceled", StatusCode |-> 0, Header |-> NoHeader, Body |-> NilBytes]

\* any other error of client.Do / io.ReadAll
TransportErr == [kind |-> "transport", StatusCode |-> 0, Header |-> NoHeader, Body |-> NilBytes]

\* errors processWatch creates itself
ProcessingErr == [kind |-> "processing", StatusCode |-> 0, Header |-> NoHeader, Body |-> NilBytes]

HTMLContentErr == [kind |-> "htmlcontent", StatusCode |-> 0, Header |-> NoHeader, Body |-> NilBytes]

SendingErr == [kind |-> "sending", StatusCode |-> 0, Header |-> NoHeader, Body |-> NilBytes]

\* ---------------------------------------------------------------- fetchURL
\* what the network gives one attempt: a response, a timeout or another
\* transport failure
Response(status, body) ==
    [net |-> "response", status |-> status, header |-> <<"Server">>, body |-> body]

NetTimeout == [net |-> "timeout", status |-> 0, header |-> NoHeader, body |-> <<>>]

NetFailure == [net |-> "failure", status |-> 0, header |-> NoHeader, body |-> <<>>]

\* the headers arrived, the body did not before the client's Timeout
NetReadTimeout == [net |-> "readtimeout", status |-> 200, header |-> NoHeader, body |-> <<>>]

\* fetchURL with isSoftError left out of the condition of line 74
fetchURLNoSoftErrors(r) ==
    IF r.net = "timeout"
    THEN [statusCode |-> -1, header |-> NoHeader, body |-> NilBytes, err |-> TimeoutErr]
    ELSE IF r.net = "failure"
    THEN [statusCode |-> -1, header |-> NoHeader, body |-> NilBytes, err |-> TransportErr]
    ELSE IF r.net = "readtimeout"
    THEN [statusCode |-> -1, header |-> NoHeader, body |-> NilBytes, err |-> ReadTimeoutErr]
    ELSE IF r.status # 200 \/ Len(r.body) = 0
    THEN [statusCode |-> -1, header |-> NoHeader, body |-> NilBytes,
          err |-> InvalidResponseError(r.status, r.header, r.body)]
    ELSE [statusCode |-> r.status, header |-> r.header, body |-> Bytes(r.body), err |-> NoErr]

\* the result of one fetchURL call: (statusCode, header, body, err)
fetchURL(r) ==
    IF r.net = "timeout"
    THEN [statusCode |-> -1, header |-> NoHeader, body |-> NilBytes, err |-> TimeoutErr]
    ELSE IF r.net = "failure"
    THEN [statusCode |-> -1, header |-> NoHeader, body |-> NilBytes, err |-> TransportErr]
    ELSE IF r.net = "readtimeout"
    THEN [statusCode |-> -1, header |-> NoHeader, body |-> NilBytes, err |-> ReadTimeoutErr]
    ELSE IF r.status # 200 \/ Len(r.body) = 0 \/ isSoftError(r.body)
    THEN [statusCode |-> -1, header |-> NoHeader, body |-> NilBytes,
          err |-> InvalidResponseError(r.status, r.header, r.body)]
    ELSE [statusCode |-> r.status, header |-> r.header, body |-> Bytes(r.body), err |-> NoErr]

\* ----------------------------------------------------------------- regexp
\* The patterns configurations use here, by their Go source text:
\*   "a(.*)"  one capture group: everything after the first a
\*   "a", "b" a literal, no capture group
\*   "("      does not compile
\* regexp.Compile(p) returns a nil error
Compiles(p) == p # "("

\* index of the first c in s, 0 if there is none
FirstIndex(s, c) ==
    IF \E k \in 1..Len(s) : s[k] = c
    THEN CHOOSE k \in 1..Len(s) : s[k] = c /\ \A j \in 1..(k - 1) : s[j] # c
    ELSE 0

\* re.FindSubmatch(body): the leftmost match and its groups, <<>> (nil) when
\* the pattern does not match
FindSubmatch(p, body) ==
    LET s == body.data
        k == FirstIndex(s, "a")
    IN  CASE p = "a(.*)" ->
               IF k = 0 THEN <<>>
               ELSE <<Bytes(SubSeq(s, k, Len(s))), Bytes(SubSeq(s, k + 1, Len(s)))>>
          [] p = "a" -> IF k = 0 THEN <<>> ELSE <<Bytes(<<"a">>)>>
          [] p = "b" -> IF FirstIndex(s, "b") = 0 THEN <<>> ELSE <<Bytes(<<"b">>)>>
          [] OTHER -> <<>>

RECURSIVE ReplaceLiteral(_, _, _)
\* every c of s replaced by the sequence repl
ReplaceLiteral(s, c, repl) ==
    IF s = <<>> THEN <<>>
    ELSE (IF Head(s) = c THEN repl ELSE <<Head(s)>>) \o ReplaceLiteral(Tail(s), c, repl)

\* re.ReplaceAll(body, repl) for a literal pattern p: Go builds the result by
\* appending to a nil buffer, so an empty result is a nil slice
ReplaceAll(p, body, repl) ==
    LET out == ReplaceLiteral(body.data, p, repl)
    IN  IF out = <<>> THEN NilBytes ELSE Bytes(out)

\* ------------------------------------------------------------- transformer
\* main.go 197-208: the extraction step; [err, body]
Extract(watch, body) ==
    IF watch.Pattern = "" THEN [err |-> NoErr, body |-> body]
    ELSE IF ~Compiles(watch.Pattern) THEN [err |-> ProcessingErr, body |-> body]
    ELSE LET match == FindSubmatch(watch.Pattern, body)
         IN  IF Len(match) < 2 THEN [err |-> ProcessingErr, body |-> body]
             ELSE [err |-> NoErr, body |-> match[2]]

RECURSIVE ApplyReplaces(_, _)
\* main.go 210-218: the replacements in declared order; [err, body]
ApplyReplaces(replaces, body) ==
    IF replaces = <<>> THEN [err |-> NoErr, body |-> body]
    ELSE LET replace == Head(replaces)
         IN  IF ~Compiles(replace.Pattern) THEN [err |-> ProcessingErr, body |-> body]
             ELSE ApplyReplaces(Tail(replaces),
                                ReplaceAll(replace.Pattern, body, replace.ReplaceWith))

\* main.go 197-218
Transform(watch, body) ==
    LET e == Extract(watch, body)
    IN  IF e.err # NoErr THEN e ELSE ApplyReplaces(watch.Replaces, e.body)

\* Ignored with the loop over the watch's own list left out
IgnoredGlobalOnly(cfg, watch, status) ==
    \E k \in 1..Len(cfg.HTTPErrorsToIgnore) : cfg.HTTPErrorsToIgnore[k] = status

\* main.go 163-175: the status is in the global or in the watch's ignore list
Ignored(cfg, watch, status) ==
    \/ \E k \in 1..Len(cfg.HTTPErrorsToIgnore) : cfg.HTTPErrorsToIgnore[k] = status
    \/ \E k \in 1..Len(watch.AdditionalHTTPErrorsToIgnore) :
           watch.AdditionalHTTPErrorsToIgnore[k] = status

\* ----------------------------------------------------------- configuration
\* config.Watch
Watch(name, url, disabled, pattern, replaces, ignore) ==
    [Name |-> name, URL |-> url, Disabled |-> disabled, Pattern |-> pattern,
     Replaces |-> replaces, AdditionalHTTPErrorsToIgnore |-> ignore]

Replace(pattern, with) == [Pattern |-> pattern, ReplaceWith |-> with]

URLs == {"u1", "u2", "u3"}

\* the watch lists a configuration file supplies here: one watch; two
\* watches of one URL; an extraction pattern with a replacement next to a
\* watch with its own ignore list; a disabled watch next to a pattern
\* without capture group; patterns that do not compile
WatchLists ==
    { <<Watch("A", "u1", FALSE, "", <<>>, <<>>)>>,
      <<Watch("A", "u1", FALSE, "", <<>>, <<>>), Watch("B", "u1", FALSE, "", <<>>, <<>>)>>,
      <<Watch("A", "u1", FALSE, "a(.*)", <<Replace("b", <<>>)>>, <<>>),
        Watch("B", "u2", FALSE, "", <<>>, <<500>>)>>,
      <<Watch("A", "u1", TRUE, "", <<>>, <<>>), Watch("B", "u2", FALSE, "a", <<>>, <<>>)>>,
      <<Watch("A", "u1", FALSE, "(", <<>>, <<>>),
        Watch("B", "u2", FALSE, "", <<Replace("b", <<"a">>), Replace("(", <<>>)>>, <<>>)>> }

\* the values of the retry_delay setting
RetryDelays == {0, 3}

\* the values of the http_errors_to_ignore setting
IgnoreLists == {<<>>, <<404>>}

\* The retry delay and the number of retries are a matter of one GetRequest
\* call alone: both delays and every number of retries are explored on the
\* single watch, the lists of two watches run with a delay and with no, one
\* or two attempts.
\* The global ignore list is a matter of one processWatch call alone: both
\* values are explored on the single watch and next to a watch with an
\* ignore list of its own, the other lists run with the empty list.
Configurations ==
    { c \in [ParallelChecks : 0..MaxParallel, Retries : (-1)..MaxRetries,
             RetryDelay : RetryDelays, HTTPErrorsToIgnore : IgnoreLists,
             Watches : WatchLists] :
        /\ c.RetryDelay > 0 \/ Len(c.Watches) = 1
        /\ c.Retries \in 0..2 \/ Len(c.Watches) = 1
        /\ \/ c.HTTPErrorsToIgnore = <<>>
           \/ Len(c.Watches) = 1
           \/ \E k \in 1..Len(c.Watches) :
                  c.Watches[k].AdditionalHTTPErrorsToIgnore # <<>> }

\* ------------------------------------------------------------ the database
\* database.Database: the entry of each URL
NoEntry == [has |-> FALSE, content |-> NilBytes]

Entry(content) == [has |-> TRUE, content |-> content]

\* the database files a run starts from
Databases ==
    { [u \in URLs |-> NoEntry],
      [u \in URLs |-> Entry(Bytes(<<"a">>))] }

\* db.GetDatabaseEntry(url): nil when there is no entry
GetDatabaseEntry(d, url) == d[url].content

\* db.SetDatabaseEntry(url, content)
SetDatabaseEntry(d, url, content) == [d EXCEPT ![url] = Entry(content)]

\* db.CleanupDatabase: drops the entries of URLs no watch of the
\* configuration names
CleanupDatabase(d, cfg) ==
    [u \in URLs |->
        IF \E k \in 1..Len(cfg.Watches) : cfg.Watches[k].URL = u THEN d[u] ELSE NoEntry]

\* ----------------------------------------------------------------- network
\* what one fetch attempt can meet
NetOutcomes ==
    { Response(200, <<"a">>), Response(200, <<"a", "b">>), Response(200, <<"b">>),
      Response(200, <<>>), Response(200, <<"a">> \o Sig404),
      Response(404, <<"b">>), Response(500, <<"b">>),
      NetTimeout, NetFailure, NetReadTimeout }

\* ------------------------------------------------------------------- state
VARIABLES
    config,     \* app.config, fixed for the run
    testMode,   \* app.testMode
    ctxDone,    \* the channel ctx.Done() of the context of the run is closed
    db,         \* app.db, the in-memory database
    runPc,      \* where app.run is
    loopIdx,    \* the index of the watch the scheduling loop is at
    semCur,     \* slots of sem that are taken
    wgCount,    \* the counter of wg
    runErr,     \* what app.run returned
    saves,      \* calls of db.SaveDatabase
    task        \* the goroutine of each watch

vars == <<config, testMode, ctxDone, db, runPc, loopIdx, semCur, wgCount, runErr, saves, task>>

Tasks == 1..Len(config.Watches)

\* a goroutine that was not started; prior: the goroutine of this watch in
\* the run before wrote the entry (false in a first run)
IdleTask ==
    [pc |-> "idle", i |-> 0, lastContent |-> NilBytes, statusCode |-> 0,
     body |-> NilBytes, err |-> NoErr, attempts |-> 0, waited |-> 0,
     mails |-> <<>>, wrote |-> 0, outcome |-> "", ret |-> NoErr,
     prior |-> FALSE]

Init ==
    /\ config \in Configurations
    /\ testMode \in BOOLEAN
    /\ ctxDone = FALSE
    /\ db \in Databases
    /\ runPc = "config"
    /\ loopIdx = 0
    /\ semCur = 0
    /\ wgCount = 0
    /\ runErr = "running"
    /\ saves = 0
    /\ task = [t \in 1..Len(config.Watches) |-> IdleTask]

\* --------------------------------------------------------------- app.run
\* main.go 86-89: config.GetConfig; a failure ends the run
GetConfig ==
    /\ runPc = "config"
    /\ \E ok \in BOOLEAN :
         IF ok THEN runPc' = "readdb" /\ runErr' = runErr
         ELSE runPc' = "returned" /\ runErr' = "config"
    /\ UNCHANGED <<config, testMode, ctxDone, db, loopIdx, semCur, wgCount, saves, task>>

\* main.go 92-109: database.ReadDatabase (a failure ends the run), then
\* CleanupDatabase and the set-up of the loop
ReadDatabase ==
    /\ runPc = "readdb"
    /\ \E ok \in BOOLEAN :
         IF ok
         THEN /\ db' = CleanupDatabase(db, config)
              /\ runPc' = "loop"
              /\ loopIdx' = 1
              /\ runErr' = runErr
         ELSE /\ runPc' = "returned"
              /\ runErr' = "readdb"
              /\ UNCHANGED <<db, loopIdx>>
    /\ UNCHANGED <<config, testMode, ctxDone, semCur, wgCount, saves, task>>

\* main.go 114-117: a disabled watch is skipped
SkipDisabled ==
    /\ runPc = "loop"
    /\ loopIdx <= Len(config.Watches)
    /\ config.Watches[loopIdx].Disabled
    /\ loopIdx' = loopIdx + 1
    /\ UNCHANGED <<config, testMode, ctxDone, db, runPc, semCur, wgCount, runErr, saves, task>>

\* semaphore.Weighted.Acquire(ctx, 1) under context.Background(): returns
\* only when a slot is free
CanAcquire == config.ParallelChecks - semCur >= 1

\* Dispatch without the Acquire: every enabled watch is started at once
DispatchNoAcquire ==
    /\ runPc = "loop"
    /\ loopIdx <= Len(config.Watches)
    /\ ~config.Watches[loopIdx].Disabled
    /\ semCur' = semCur + 1
    /\ wgCount' = wgCount + 1
    /\ task' = [task EXCEPT ![loopIdx].pc = "start"]
    /\ loopIdx' = loopIdx + 1
    /\ UNCHANGED <<config, testMode, ctxDone, db, runPc, runErr, saves>>

\* Dispatch without a look at the Disabled flag
DispatchDisabledToo ==
    /\ runPc = "loop"
    /\ loopIdx <= Len(config.Watches)
    /\ CanAcquire
    /\ semCur' = semCur + 1
    /\ wgCount' = wgCount + 1
    /\ task' = [task EXCEPT ![loopIdx].pc = "start"]
    /\ loopIdx' = loopIdx + 1
    /\ UNCHANGED <<config, testMode, ctxDone, db, runPc, runErr, saves>>

\* main.go 119-137: Acquire, wg.Add(1) and the go statement
Dispatch ==
    /\ runPc = "loop"
    /\ loopIdx <= Len(config.Watches)
    /\ ~config.Watches[loopIdx].Disabled
    /\ CanAcquire
    /\ semCur' = semCur + 1
    /\ wgCount' = wgCount + 1
    /\ task' = [task EXCEPT ![loopIdx].pc = "start"]
    /\ loopIdx' = loopIdx + 1
    /\ UNCHANGED <<config, testMode, ctxDone, db, runPc, runErr, saves>>

\* wg.Wait() returns: the counter is zero
WaitDone == wgCount = 0

\* WgWait without the wait: the run goes on to save when the loop is over
WgWaitNoJoin ==
    /\ runPc = "loop"
    /\ loopIdx > Len(config.Watches)
    /\ runPc' = "save"
    /\ UNCHANGED <<config, testMode, ctxDone, db, loopIdx, semCur, wgCount, runErr, saves, task>>

\* main.go 138-140: the loop is over and wg.Wait() returns
WgWait ==
    /\ runPc = "loop"
    /\ loopIdx > Len(config.Watches)
    /\ WaitDone
    /\ runPc' = "save"
    /\ UNCHANGED <<config, testMode, ctxDone, db, loopIdx, semCur, wgCount, runErr, saves, task>>

\* SaveDatabase in a run that gives up, unsaved, when a task returned an error
SaveDatabaseUnlessTaskError ==
    /\ runPc = "save"
    /\ runPc' = "returned"
    /\ IF \E t \in DOMAIN task : task[t].ret.kind # "nil"
       THEN saves' = saves /\ runErr' = "task"
       ELSE saves' = saves + 1 /\ \E ok \in BOOLEAN : runErr' = IF ok THEN "nil" ELSE "save"
    /\ UNCHANGED <<config, testMode, ctxDone, db, loopIdx, semCur, wgCount, task>>

\* main.go 142-148: db.SetLastRun and db.SaveDatabase; a failed save is the
\* error of the run
SaveDatabase ==
    /\ runPc = "save"
    /\ saves' = saves + 1
    /\ runPc' = "returned"
    /\ \E ok \in BOOLEAN : runErr' = IF ok THEN "nil" ELSE "save"
    /\ UNCHANGED <<config, testMode, ctxDone, db, loopIdx, semCur, wgCount, task>>

\* ----------------------------------------------------- the watch goroutine
OtherVars == <<config, testMode, ctxDone, runPc, loopIdx, runErr, saves>>

\* main.go 152-155: processWatch reads the last content and calls GetRequest
GetLastContent(t) ==
    /\ task[t].pc = "start"
    /\ task' = [task EXCEPT ![t].lastContent =
                                GetDatabaseEntry(db, config.Watches[t].URL),
                            ![t].i = 1,
                            ![t].pc = "loop"]
    /\ UNCHANGED <<OtherVars, db, semCur, wgCount>>

\* http.go 116-130: where GetRequest goes after attempt i ended with err
AfterAttempt(i, err) ==
    IF err = NoErr THEN "ret"
    ELSE IF i = config.Retries THEN "ret"
    ELSE IF config.RetryDelay > 0 THEN "backoff"
    ELSE "loop"

\* http.go 107-130: one pass of the retry loop, a call of fetchURL
FetchAttempt(t) ==
    /\ task[t].pc = "loop"
    /\ task[t].i <= config.Retries
    /\ \E r \in NetOutcomes :
         LET res == fetchURL(r)
             to == AfterAttempt(task[t].i, res.err)
         IN  task' = [task EXCEPT ![t].statusCode = res.statusCode,
                                  ![t].body = res.body,
                                  ![t].err = res.err,
                                  ![t].attempts = @ + 1,
                                  ![t].i = IF to = "loop" THEN @ + 1 ELSE @,
                                  ![t].pc = to]
    /\ UNCHANGED <<OtherVars, db, semCur, wgCount>>

\* http.go 107: the loop condition fails before any attempt
LoopExit(t) ==
    /\ task[t].pc = "loop"
    /\ task[t].i > config.Retries
    /\ task' = [task EXCEPT ![t].pc = "ret"]
    /\ UNCHANGED <<OtherVars, db, semCur, wgCount>>

\* http.go 121-127: time.After(retryDelay) fires (the context of the run is
\* context.Background(), which is never done)
Backoff(t) ==
    /\ task[t].pc = "backoff"
    /\ task' = [task EXCEPT ![t].waited = @ + config.RetryDelay,
                            ![t].i = @ + 1,
                            ![t].pc = "loop"]
    /\ UNCHANGED <<OtherVars, db, semCur, wgCount>>

\* OnFetchError with the default case returning nil: the scheduler never
\* hears of a transport error
OnFetchErrorSwallow(watch, err) ==
    IF err.kind = "invalid"
    THEN IF Ignored(config, watch, err.StatusCode)
         THEN [outcome |-> "IgnoredError", pc |-> "deferDone", ret |-> NoErr]
         ELSE [outcome |-> "ReportedError", pc |-> "mailInvalid", ret |-> NoErr]
    ELSE IF err.kind = "timeout"
    THEN [outcome |-> "IgnoredError", pc |-> "deferDone", ret |-> NoErr]
    ELSE [outcome |-> "FatalError", pc |-> "deferDone", ret |-> NoErr]

\* main.go 156-195: the branch processWatch takes on an error of GetRequest:
\* [outcome, pc, ret]
OnFetchError(watch, err) ==
    IF err.kind = "invalid"
    THEN IF Ignored(config, watch, err.StatusCode)
         THEN [outcome |-> "IgnoredError", pc |-> "deferDone", ret |-> NoErr]
         ELSE [outcome |-> "ReportedError", pc |-> "mailInvalid", ret |-> NoErr]
    ELSE IF err.kind = "timeout"
    THEN [outcome |-> "IgnoredError", pc |-> "deferDone", ret |-> NoErr]
    ELSE [outcome |-> "FatalError", pc |-> "errMail", ret |-> err]

\* OnContent without the lastContent == nil case: a first fetch is compared
\* with the missing entry
OnContentNoNilCheck(lastContent, body) ==
    IF ~BytesEqual(lastContent, body)
    THEN [outcome |-> "Changed", pc |-> IF testMode THEN "store" ELSE "mailChange",
          ret |-> NoErr]
    ELSE [outcome |-> "Unchanged", pc |-> "store", ret |-> NoErr]

\* OnContent with the comparison turned around: equal contents count as a
\* change
OnContentInverted(lastContent, body) ==
    IF lastContent.isNil
    THEN [outcome |-> "NewResource", pc |-> "store", ret |-> NoErr]
    ELSE IF BytesEqual(lastContent, body)
    THEN [outcome |-> "Changed", pc |-> IF testMode THEN "store" ELSE "mailChange",
          ret |-> NoErr]
    ELSE [outcome |-> "Unchanged", pc |-> "store", ret |-> NoErr]

\* main.go 220-243: the branch processWatch takes on a transformed body
OnContent(lastContent, body) ==
    IF lastContent.isNil
    THEN [outcome |-> "NewResource", pc |-> "store", ret |-> NoErr]
    ELSE IF ~BytesEqual(lastContent, body)
    THEN [outcome |-> "Changed", pc |-> IF testMode THEN "store" ELSE "mailChange",
          ret |-> NoErr]
    ELSE [outcome |-> "Unchanged", pc |-> "store", ret |-> NoErr]

\* ProcessResult going on with the untransformed body when the extraction or
\* a replacement fails
ProcessResultLenient(t) ==
    /\ task[t].pc = "ret"
    /\ LET watch == config.Watches[t]
           tr == Transform(watch, task[t].body)
           to == IF task[t].err # NoErr THEN OnFetchError(watch, task[t].err)
                 ELSE OnContent(task[t].lastContent, tr.body)
       IN  task' = [task EXCEPT ![t].body = IF task[t].err = NoErr THEN tr.body ELSE @,
                                ![t].i = 0,
                                ![t].attempts = 0,
                                ![t].waited = 0,
                                ![t].outcome = to.outcome,
                                ![t].ret = to.ret,
                                ![t].pc = to.pc]
    /\ UNCHANGED <<OtherVars, db, semCur, wgCount>>

\* http.go 133-138 and main.go 156-243: GetRequest returns (its loop counter
\* is gone, the tallies of the call start over) and processWatch classifies
\* the result, up to its next call of the mailer or the database
ProcessResult(t) ==
    /\ task[t].pc = "ret"
    /\ LET watch == config.Watches[t]
           tr == Transform(watch, task[t].body)
           to == IF task[t].err # NoErr THEN OnFetchError(watch, task[t].err)
                 ELSE IF tr.err # NoErr
                 THEN [outcome |-> "FatalError", pc |-> "errMail", ret |-> tr.err]
                 ELSE OnContent(task[t].lastContent, tr.body)
       IN  task' = [task EXCEPT ![t].body = IF task[t].err = NoErr /\ tr.err = NoErr
                                            THEN tr.body ELSE @,
                                ![t].i = 0,
                                ![t].attempts = 0,
                                ![t].waited = 0,
                                ![t].outcome = to.outcome,
                                ![t].ret = to.ret,
                                ![t].pc = to.pc]
    /\ UNCHANGED <<OtherVars, db, semCur, wgCount>>

\* a call of the mailer, as the task records it
Mail(kind, ok) == [kind |-> kind, ok |-> ok]

\* main.go 177-187: the invalid-response e-mail; a failed send is returned
SendInvalidMail(t) ==
    /\ task[t].pc = "mailInvalid"
    /\ \E ok \in BOOLEAN :
         task' = [task EXCEPT ![t].mails = Append(@, Mail("invalid", ok)),
                              ![t].ret = IF ok THEN NoErr ELSE SendingErr,
                              ![t].pc = IF ok THEN "deferDone" ELSE "errMail"]
    /\ UNCHANGED <<OtherVars, db, semCur, wgCount>>

\* SendChangeMail going on to the store when the send failed
SendChangeMailStoresAnyway(t) ==
    /\ task[t].pc = "mailChange"
    /\ \/ task' = [task EXCEPT ![t].ret = HTMLContentErr, ![t].pc = "errMail"]
       \/ \E ok \in BOOLEAN :
            task' = [task EXCEPT ![t].mails = Append(@, Mail("change", ok)),
                                 ![t].pc = "store"]
    /\ UNCHANGED <<OtherVars, db, semCur, wgCount>>

\* main.go 232-241: the change e-mail: diff.DiffAPI may fail before any send,
\* and a failed send is returned
SendChangeMail(t) ==
    /\ task[t].pc = "mailChange"
    /\ \/ task' = [task EXCEPT ![t].ret = HTMLContentErr, ![t].pc = "errMail"]
       \/ \E ok \in BOOLEAN :
            task' = [task EXCEPT ![t].mails = Append(@, Mail("change", ok)),
                                 ![t].ret = IF ok THEN NoErr ELSE SendingErr,
                                 ![t].pc = IF ok THEN "store" ELSE "errMail"]
    /\ UNCHANGED <<OtherVars, db, semCur, wgCount>>

\* main.go 224 and 246: app.db.SetDatabaseEntry(watch.URL, body), return nil
Store(t) ==
    /\ task[t].pc = "store"
    /\ db' = SetDatabaseEntry(db, config.Watches[t].URL, task[t].body)
    /\ task' = [task EXCEPT ![t].wrote = @ + 1, ![t].pc = "deferDone"]
    /\ UNCHANGED <<OtherVars, semCur, wgCount>>

\* SendErrorEmail leaving the goroutine without wg.Done() when the send
\* failed
SendErrorEmailNoDone(t) ==
    /\ task[t].pc = "errMail"
    /\ \E ok \in BOOLEAN :
         task' = [task EXCEPT ![t].mails = Append(@, Mail("error", ok)),
                              ![t].pc = IF ok THEN "deferDone" ELSE "deferRelease"]
    /\ UNCHANGED <<OtherVars, db, semCur, wgCount>>

\* main.go 129-136: processWatch returned an error: it is logged and
\* app.mailer.SendErrorEmail is called; its failure is logged
SendErrorEmail(t) ==
    /\ task[t].pc = "errMail"
    /\ \E ok \in BOOLEAN :
         task' = [task EXCEPT ![t].mails = Append(@, Mail("error", ok)),
                              ![t].pc = "deferDone"]
    /\ UNCHANGED <<OtherVars, db, semCur, wgCount>>

\* what is left of a goroutine once its function body is over: the locals
\* of processWatch and GetRequest are gone, the record of what it did stays
Returned(tk, pc) ==
    [IdleTask EXCEPT !.pc = pc, !.mails = tk.mails, !.wrote = tk.wrote,
                     !.outcome = tk.outcome, !.ret = tk.ret, !.prior = tk.prior]

\* main.go 127: the deferred wg.Done() runs first
WgDone(t) ==
    /\ task[t].pc = "deferDone"
    /\ wgCount' = wgCount - 1
    /\ task' = [task EXCEPT ![t] = Returned(@, "deferRelease")]
    /\ UNCHANGED <<OtherVars, db, semCur>>

\* main.go 126: the deferred sem.Release(1) runs last
SemRelease(t) ==
    /\ task[t].pc = "deferRelease"
    /\ semCur' = semCur - 1
    /\ task' = [task EXCEPT ![t].pc = "exited"]
    /\ UNCHANGED <<OtherVars, db, wgCount>>

Next ==
    \/ GetConfig
    \/ ReadDatabase
    \/ SkipDisabled
    \/ Dispatch
    \/ WgWait
    \/ SaveDatabase
    \/ \E t \in Tasks : GetLastContent(t)
    \/ \E t \in Tasks : FetchAttempt(t)
    \/ \E t \in Tasks : LoopExit(t)
    \/ \E t \in Tasks : Backoff(t)
    \/ \E t \in Tasks : ProcessResult(t)
    \/ \E t \in Tasks : SendInvalidMail(t)
    \/ \E t \in Tasks : SendChangeMail(t)
    \/ \E t \in Tasks : Store(t)
    \/ \E t \in Tasks : SendErrorEmail(t)
    \/ \E t \in Tasks : WgDone(t)
    \/ \E t \in Tasks : SemRelease(t)

Spec == Init /\ [][Next]_vars

\* ------------------------------------------------- two runs, one upstream
\* the number of runs of the program in a row
MaxRuns == 2

\* what each URL serves while the upstream content does not change
Upstream == [u \in URLs |-> IF u = "u1" THEN <<"a", "b">> ELSE <<"a">>]

\* the database files of the first of two runs: those of a single run, and
\* the file of a run that stored what the watches of the lists make of
\* Upstream
DatabasesTwice ==
    Databases \cup
    { [u \in URLs |-> Entry(Bytes(Upstream[u]))],
      [u \in URLs |-> IF u = "u1" THEN Entry(NilBytes) ELSE Entry(Bytes(Upstream[u]))] }

\* db.SaveDatabase followed by database.ReadDatabase in the next run: the
\* same keys with the same bytes; a content without bytes is read back as a
\* nil or as an empty slice
Reloads(d) ==
    { e \in [URLs -> {NoEntry, Entry(NilBytes), Entry(Bytes(<<>>))}
                       \cup {d[u] : u \in URLs}] :
        \A u \in URLs :
            /\ e[u].has = d[u].has
            /\ e[u].content.data = d[u].content.data
            /\ d[u].content.data # <<>> => e[u] = d[u] }

InitTwice ==
    /\ config \in Configurations
    /\ testMode \in BOOLEAN
    /\ ctxDone = FALSE
    /\ db \in DatabasesTwice
    /\ runPc = "config"
    /\ loopIdx = 0
    /\ semCur = 0
    /\ wgCount = 0
    /\ runErr = "running"
    /\ saves = 0
    /\ task = [t \in 1..Len(config.Watches) |-> IdleTask]

\* an attempt against the unchanged upstream: it times out or it returns
\* what the URL serves
FetchUnchanged(t) ==
    /\ FetchAttempt(t)
    /\ \/ task'[t].err = TimeoutErr
       \/ /\ task'[t].err = NoErr
          /\ task'[t].body = Bytes(Upstream[config.Watches[t].URL])

\* main.go 36-45: the program is started again after a run that returned
\* nil, on the database file that run saved
NextRun ==
    /\ runPc = "returned"
    /\ runErr = "nil"
    /\ saves < MaxRuns
    /\ db' \in Reloads(db)
    /\ runPc' = "config"
    /\ loopIdx' = 0
    /\ runErr' = "running"
    /\ task' = [t \in Tasks |-> [IdleTask EXCEPT !.prior = (task[t].wrote >= 1)]]
    /\ UNCHANGED <<config, testMode, ctxDone, semCur, wgCount, saves>>

NextTwice ==
    \/ GetConfig
    \/ ReadDatabase
    \/ SkipDisabled
    \/ Dispatch
    \/ WgWait
    \/ SaveDatabase
    \/ NextRun
    \/ \E t \in Tasks : GetLastContent(t)
    \/ \E t \in Tasks : FetchUnchanged(t)
    \/ \E t \in Tasks : LoopExit(t)
    \/ \E t \in Tasks : Backoff(t)
    \/ \E t \in Tasks : ProcessResult(t)
    \/ \E t \in Tasks : SendChangeMail(t)
    \/ \E t \in Tasks : Store(t)
    \/ \E t \in Tasks : SendErrorEmail(t)
    \/ \E t \in Tasks : WgDone(t)
    \/ \E t \in Tasks : SemRelease(t)

SpecTwice == InitTwice /\ [][NextTwice]_vars

\* ------------------------------------------------- a context that is done
\* GetRequest, processWatch and Acquire take the context as an argument.
\* run() hands them context.Background() (main.go 109), which is never done,
\* so Spec has no step that closes ctx.Done(); SpecCancel is the same program
\* under a context its owner may cancel at any moment.
Cancel ==
    /\ ~ctxDone
    /\ runPc = "loop"
    /\ ctxDone' = TRUE
    /\ UNCHANGED <<config, testMode, db, runPc, loopIdx, semCur, wgCount, runErr, saves, task>>

\* the configurations of SpecCancel: retries with a delay between them
ConfigurationsCancel ==
    { c \in Configurations : c.Retries >= 1 /\ c.RetryDelay > 0 }

InitCancel ==
    /\ Init
    /\ config \in ConfigurationsCancel

\* BackoffCancelled taking the timer's case although the context is done
BackoffIgnoresCancel(t) ==
    /\ task[t].pc = "backoff"
    /\ ctxDone
    /\ task' = [task EXCEPT ![t].waited = @ + config.RetryDelay,
                            ![t].i = @ + 1,
                            ![t].pc = "loop"]
    /\ UNCHANGED <<OtherVars, db, semCur, wgCount>>

\* http.go 122-124: the select of the backoff receives from ctx.Done() and
\* GetRequest returns -1, nil, -1, nil, ctx.Err()
BackoffCancelled(t) ==
    /\ task[t].pc = "backoff"
    /\ ctxDone
    /\ task' = [task EXCEPT ![t].statusCode = -1,
                            ![t].body = NilBytes,
                            ![t].err = CanceledErr,
                            ![t].pc = "ret"]
    /\ UNCHANGED <<OtherVars, db, semCur, wgCount>>

\* http.go 125: the timer of the backoff fires before the context is done
BackoffTimer(t) ==
    /\ ~ctxDone
    /\ Backoff(t)

\* what the sites answer under SpecCancel
NetOutcomesCancel == {Response(200, <<"a", "b">>), Response(500, <<"b">>), NetTimeout, NetFailure}

\* http.go 56-66: under a context that is done client.Do returns at once
\* with a *url.Error that reports no timeout
FetchCtx(t) ==
    /\ FetchAttempt(t)
    /\ \E r \in NetOutcomesCancel : task'[t].err = fetchURL(r).err /\ task'[t].body = fetchURL(r).body
    /\ ctxDone => task'[t].err = TransportErr

\* main.go 119-122: no slot is free and the context is done: Acquire returns
\* ctx.Err(), which is logged, and the loop continues with the next watch
AcquireFails ==
    /\ runPc = "loop"
    /\ loopIdx <= Len(config.Watches)
    /\ ~config.Watches[loopIdx].Disabled
    /\ ~CanAcquire
    /\ ctxDone
    /\ loopIdx' = loopIdx + 1
    /\ UNCHANGED <<config, testMode, ctxDone, db, runPc, semCur, wgCount, runErr, saves, task>>

NextCancel ==
    \/ GetConfig
    \/ ReadDatabase
    \/ SkipDisabled
    \/ Dispatch
    \/ AcquireFails
    \/ WgWait
    \/ SaveDatabase
    \/ Cancel
    \/ \E t \in Tasks : GetLastContent(t)
    \/ \E t \in Tasks : FetchCtx(t)
    \/ \E t \in Tasks : BackoffTimer(t)
    \/ \E t \in Tasks : BackoffCancelled(t)
    \/ \E t \in Tasks : ProcessResult(t)
    \/ \E t \in Tasks : SendInvalidMail(t)
    \/ \E t \in Tasks : SendChangeMail(t)
    \/ \E t \in Tasks : Store(t)
    \/ \E t \in Tasks : SendErrorEmail(t)
    \/ \E t \in Tasks : WgDone(t)
    \/ \E t \in Tasks : SemRelease(t)

SpecCancel == InitCancel /\ [][NextCancel]_vars

\* ================================================================= claims
URLOf(t) == config.Watches[t].URL

\* no other watch of the configuration has the URL of watch t
UniqueURL(t) == \A u \in Tasks \ {t} : URLOf(u) # URLOf(t)

\* processWatch of t has returned and the goroutine has dealt with its error
Ended(t) == task[t].pc = "deferDone"

\* the fetch and the transformation of t succeeded
ContentOutcomes == {"NewResource", "Unchanged", "Changed"}

\* the entry of t's URL is the body t holds, unless another watch shares it
StoreIsBody(t) == UniqueURL(t) => db[URLOf(t)] = Entry(task[t].body)

\* the entry of t's URL is what t read at its start, unless another watch
\* shares it
StoreUntouched(t) ==
    UniqueURL(t) => GetDatabaseEntry(db, URLOf(t)) = task[t].lastContent

\* an attempt of t's GetRequest succeeded and so did the transformation
Fetched(t) == task[t].statusCode = 200 /\ task[t].outcome \in ContentOutcomes

\* t has a prior entry and its transformed body differs from it
Differs(t) ==
    /\ Fetched(t)
    /\ ~task[t].lastContent.isNil
    /\ task[t].lastContent.data # task[t].body.data

\* C1 as stated: a watch whose transformed body differs from the prior entry
\* ends with exactly one notification attempt (none in test mode) and with
\* the new body stored, whether or not the attempt succeeded.
C1_Original ==
    \A t \in Tasks :
        (Ended(t) /\ Differs(t)) =>
            /\ Len(task[t].mails) = IF testMode THEN 0 ELSE 1
            /\ task[t].wrote = 1
            /\ StoreIsBody(t)

\* C1 amended: at most one change e-mail is attempted, none in test mode; in
\* test mode or when the e-mail was rendered and sent, the task writes the
\* new body once; when rendering or sending failed, processWatch returns the
\* error without writing and the scheduler attempts one error e-mail.
C1_Changed ==
    \A t \in Tasks :
        (Ended(t) /\ Differs(t)) =>
            /\ task[t].outcome = "Changed"
            /\ testMode => task[t].mails = <<>> /\ task[t].ret = NoErr
            /\ task[t].ret = NoErr =>
                   /\ ~testMode => task[t].mails = <<Mail("change", TRUE)>>
                   /\ task[t].wrote = 1
                   /\ StoreIsBody(t)
            /\ task[t].ret = SendingErr =>
                   /\ Len(task[t].mails) = 2
                   /\ task[t].mails[1] = Mail("change", FALSE)
                   /\ task[t].mails[2].kind = "error"
                   /\ task[t].wrote = 0
                   /\ StoreUntouched(t)
            /\ task[t].ret = HTMLContentErr =>
                   /\ Len(task[t].mails) = 1
                   /\ task[t].mails[1].kind = "error"
                   /\ task[t].wrote = 0
                   /\ StoreUntouched(t)
            /\ task[t].ret \in {NoErr, SendingErr, HTMLContentErr}

\* a changed watch ended with its one e-mail sent and the new body stored
C1_Witness ==
    \E t \in Tasks :
        /\ Ended(t) /\ Differs(t) /\ ~testMode
        /\ task[t].mails = <<Mail("change", TRUE)>>
        /\ task[t].wrote = 1
        /\ db[URLOf(t)] = Entry(task[t].body)

\* GetRequest of t has returned
Returned_GetRequest(t) == task[t].pc = "ret"

\* C2 as stated: when no attempt succeeded, GetRequest made exactly `retries`
\* attempts, waited retryDelay between consecutive attempts and returns an
\* error, for every configured value of retries.
C2_RetryExhaustion ==
    \A t \in Tasks :
        (Returned_GetRequest(t) /\ ~(task[t].attempts >= 1 /\ task[t].err = NoErr)) =>
            /\ task[t].attempts = config.Retries
            /\ task[t].waited = (config.Retries - 1) * config.RetryDelay
            /\ task[t].err # NoErr

\* the tasks that were dispatched and have not released their slot
InFlight == {t \in Tasks : task[t].pc \notin {"idle", "exited"}}

\* C3: the dispatched and unfinished tasks never outnumber ParallelChecks,
\* each of them holds one slot, and the loop is past no watch it could not
\* get a slot for.
C3_BoundedParallel ==
    /\ Cardinality(InFlight) <= config.ParallelChecks
    /\ semCur = Cardinality(InFlight)
    /\ \A t \in Tasks : t >= loopIdx => task[t].pc = "idle"

\* the loop is blocked in Acquire at the second watch while the first runs
C3_Witness ==
    /\ runPc = "loop"
    /\ loopIdx = 2
    /\ Len(config.Watches) = 2
    /\ ~config.Watches[2].Disabled
    /\ semCur = config.ParallelChecks
    /\ task[1].pc = "loop"
    /\ ~ENABLED Dispatch

\* C4 as stated: within a run a key is written at most once, only by a task
\* whose fetch and transformation succeeded, and no task reads or writes a
\* key another task writes, for every watch list. (Stated for retries >= 1,
\* where a success of GetRequest is a fetch.)
C4_OneWriterPerKey ==
    config.Retries >= 1 =>
        /\ \A t \in Tasks :
               /\ task[t].wrote <= 1
               /\ task[t].wrote = 1 => task[t].outcome \in ContentOutcomes
        /\ \A t, u \in Tasks :
               (t # u /\ URLOf(t) = URLOf(u) /\ task[u].wrote >= 1) =>
                   task[t].pc \in {"idle", "start"}

\* C5: the save starts only when every dispatched task is over, and there is
\* one save per run that reaches it.
C5_SaveAfterJoin ==
    /\ saves <= 1
    /\ (runPc = "save" \/ saves > 0) =>
           \A t \in Tasks :
               IF config.Watches[t].Disabled THEN task[t].pc = "idle"
               ELSE task[t].pc \in {"deferRelease", "exited"}
    /\ (runPc = "returned" /\ runErr \in {"nil", "save"}) <=> saves = 1

\* the run saved after a task that wrote its entry
C5_Witness ==
    /\ runPc = "returned"
    /\ saves = 1
    /\ \E t \in Tasks : task[t].wrote = 1

\* every enabled watch was dispatched and its goroutine is over
AllTasksOver ==
    \A t \in Tasks :
        IF config.Watches[t].Disabled THEN task[t].pc = "idle"
        ELSE task[t].pc \in {"deferRelease", "exited"}

\* what the tasks do never decides what a run that got to its loop returns
TasksIsolated ==
    /\ runErr \in {"nil", "save"} => (saves = 1 /\ AllTasksOver)
    /\ runErr \in {"config", "readdb"} =>
           (saves = 0 /\ \A t \in Tasks : task[t].pc = "idle")

\* C6 as stated: no error of a task keeps another watch from running to its
\* end or the run from saving, and the run returns an error only when the
\* configuration cannot be loaded or the final save fails.
C6_Original ==
    runPc = "returned" =>
        /\ runErr \in {"nil", "config", "save"}
        /\ TasksIsolated

\* C6 amended: the run returns an error only when the configuration cannot
\* be loaded, the database cannot be read at startup, or the final save
\* fails; once the loop is reached no error of a task keeps another watch
\* from running to its end or the run from saving.
C6_Isolation ==
    /\ runPc = "returned" =>
           /\ runErr \in {"nil", "config", "readdb", "save"}
           /\ TasksIsolated
    /\ runPc # "returned" => runErr = "running"

\* the run returned nil although one task ended with a failed error e-mail,
\* and another watch was still stored
C6_Witness ==
    /\ runPc = "returned"
    /\ runErr = "nil"
    /\ \E t, u \in Tasks :
           /\ task[t].outcome = "FatalError"
           /\ task[t].mails = <<Mail("error", FALSE)>>
           /\ task[u].wrote = 1

\* t's goroutine body is over
Over(t) == task[t].pc \in {"deferDone", "deferRelease", "exited"}

\* C7 as stated: a reported or fatal error of a watch gets exactly one
\* notification attempt, and a failure of that attempt is only logged.
C7_Original ==
    \A t \in Tasks :
        (Over(t) /\ task[t].outcome \in {"ReportedError", "FatalError"}) =>
            Len(task[t].mails) = 1

\* C7 amended: a fatal error (transport or processing) gets exactly one
\* attempt, the scheduler's error e-mail, whose failure is only logged; a
\* reported HTTP error gets the invalid-response e-mail, and when sending it
\* fails the error is returned to the scheduler, which attempts one error
\* e-mail more; nothing is attempted after that.
C7_ErrorMails ==
    \A t \in Tasks :
        Over(t) =>
            /\ task[t].outcome = "FatalError" =>
                   /\ Len(task[t].mails) = 1
                   /\ task[t].mails[1].kind = "error"
                   /\ task[t].ret.kind \in {"transport", "readtimeout", "canceled", "processing"}
            /\ task[t].outcome = "ReportedError" =>
                   \/ task[t].mails = <<Mail("invalid", TRUE)>> /\ task[t].ret = NoErr
                   \/ /\ Len(task[t].mails) = 2
                      /\ task[t].mails[1] = Mail("invalid", FALSE)
                      /\ task[t].mails[2].kind = "error"
                      /\ task[t].ret = SendingErr
            /\ task[t].outcome \in {"ReportedError", "FatalError"} => task[t].wrote = 0

\* a fatal error whose one error e-mail failed, and the task is over
C7_Witness ==
    \E t \in Tasks :
        /\ task[t].pc = "exited"
        /\ task[t].outcome = "FatalError"
        /\ task[t].mails = <<Mail("error", FALSE)>>

\* the status is in the configuration's or the watch's ignore list
InIgnoreLists(t, status) ==
    \/ \E k \in DOMAIN config.HTTPErrorsToIgnore : config.HTTPErrorsToIgnore[k] = status
    \/ \E k \in DOMAIN config.Watches[t].AdditionalHTTPErrorsToIgnore :
           config.Watches[t].AdditionalHTTPErrorsToIgnore[k] = status

\* GetRequest of t returned a hard HTTP error with an ignored status
IgnoredHardError(t) ==
    /\ task[t].err.kind = "invalid"
    /\ InIgnoreLists(t, task[t].err.StatusCode)

\* C8: a hard HTTP error whose status is in either ignore list ends the task
\* with no notification attempt, no write of the store and a nil error.
C8_IgnoreLists ==
    \A t \in Tasks :
        (IgnoredHardError(t) /\ task[t].pc \notin {"loop", "backoff", "ret"}) =>
            /\ Ended(t)
            /\ task[t].outcome = "IgnoredError"
            /\ task[t].mails = <<>>
            /\ task[t].wrote = 0
            /\ task[t].ret = NoErr
            /\ StoreUntouched(t)

\* a 500 that only the watch's own list ignores ended the task silently
C8_Witness ==
    \E t \in Tasks :
        /\ Ended(t)
        /\ task[t].err.kind = "invalid"
        /\ task[t].err.StatusCode = 500
        /\ config.Watches[t].AdditionalHTTPErrorsToIgnore = <<500>>
        /\ task[t].mails = <<>>

\* C9 as stated: in test mode no e-mail is sent on any path of the run.
\* (Stated for retries >= 1, where every task starts with a fetch.)
C9_TestModeSilent ==
    (testMode /\ config.Retries >= 1) => \A t \in Tasks : \A k \in DOMAIN task[t].mails : ~task[t].mails[k].ok

\* C10: a watch without prior entry whose fetch and transformation succeed
\* stores the transformed body once and attempts no notification.
C10_NewResource ==
    \A t \in Tasks :
        (Fetched(t) /\ task[t].lastContent.isNil) =>
            /\ task[t].outcome = "NewResource"
            /\ task[t].mails = <<>>
            /\ task[t].pc \in {"store", "deferDone"}
            /\ task[t].pc = "store" => task[t].wrote = 0
            /\ task[t].pc = "deferDone" =>
                   /\ task[t].wrote = 1
                   /\ task[t].ret = NoErr
                   /\ StoreIsBody(t)

\* a first fetch was stored without a notification
C10_Witness ==
    \E t \in Tasks :
        /\ Ended(t) /\ Fetched(t) /\ task[t].lastContent.isNil
        /\ task[t].wrote = 1
        /\ db[URLOf(t)] = Entry(task[t].body)
        /\ task[t].body.data # <<>>

\* t fetched a body that, transformed, equals its prior entry
Equal(t) ==
    /\ Fetched(t)
    /\ ~task[t].lastContent.isNil
    /\ BytesEqual(task[t].lastContent, task[t].body)

\* a task whose body equals its prior entry attempts no notification and
\* rewrites the entry with the same bytes
UnchangedRewrites ==
    \A t \in Tasks :
        (Ended(t) /\ Equal(t)) =>
            /\ task[t].outcome = "Unchanged"
            /\ task[t].mails = <<>>
            /\ task[t].wrote = 1
            /\ task[t].ret = NoErr
            /\ UniqueURL(t) =>
                   /\ db[URLOf(t)].has
                   /\ db[URLOf(t)].content.data = task[t].lastContent.data

\* the tasks of the state belong to a run after the first
InLaterRun == (saves >= 1 /\ runPc # "returned") \/ saves >= 2

\* t attempts no notification and, when it writes, puts back the bytes the
\* entry has
Quiet(t) ==
    /\ task[t].mails = <<>>
    /\ task[t].pc = "store" => BytesEqual(task[t].body, db[URLOf(t)].content)

FetchFailed(t, kinds) ==
    /\ task[t].err.kind \in kinds
    /\ task[t].pc \notin {"loop", "backoff", "ret"}

\* the timeouts of the transport: of the request (a *url.Error) and of the
\* reading of the body
TimeoutKinds == {"timeout", "readtimeout"}

\* t ended without a notification attempt and without a write
EndedSilently(t) ==
    /\ Ended(t)
    /\ task[t].outcome = "IgnoredError"
    /\ task[t].mails = <<>>
    /\ task[t].wrote = 0
    /\ task[t].ret = NoErr
    /\ StoreUntouched(t)

\* t goes to the scheduler with the error of the fetch, which attempts one
\* error e-mail; nothing is written
EndedFatally(t) ==
    /\ task[t].outcome = "FatalError"
    /\ task[t].ret = task[t].err
    /\ task[t].wrote = 0
    /\ StoreUntouched(t)
    /\ \/ task[t].pc = "errMail" /\ task[t].mails = <<>>
       \/ Ended(t) /\ Len(task[t].mails) = 1 /\ task[t].mails[1].kind = "error"

\* C12 as stated: a fetch that failed with a timeout of the transport ends
\* the task with no notification attempt and no write; any other transport
\* error is returned to the scheduler, which attempts one error e-mail, and
\* nothing is written.
C12_Timeouts ==
    \A t \in Tasks :
        /\ FetchFailed(t, TimeoutKinds) => EndedSilently(t)
        /\ FetchFailed(t, {"transport"}) => EndedFatally(t)

\* what holds of C12: the timeout the code recognises, a *url.Error, is
\* silent, and every other error of the transport is fatal
C12_URLTimeouts ==
    \A t \in Tasks :
        /\ FetchFailed(t, {"timeout"}) => EndedSilently(t)
        /\ FetchFailed(t, {"transport", "readtimeout"}) => EndedFatally(t)

\* GetRequest of t returned a body that the extraction pattern or a
\* replacement pattern of the watch rejects
TransformFails(t) ==
    /\ task[t].pc = "ret"
    /\ task[t].err = NoErr
    /\ Transform(config.Watches[t], task[t].body).err # NoErr

\* processWatch of t returned the error of the extraction or of a
\* replacement
ProcessingFailed(t) == task[t].ret = ProcessingErr

\* C13: when the extraction pattern does not compile or does not match with
\* a capture group, or a replacement pattern does not compile, processWatch
\* returns the error whatever the ignore lists hold and writes nothing; the
\* scheduler attempts exactly one error e-mail and the entry stays as it was.
C13_ProcessingFatal ==
    /\ [][\A t \in Tasks :
             (TransformFails(t) /\ task'[t] # task[t]) =>
                 /\ ProcessingFailed(t)'
                 /\ task'[t].outcome = "FatalError"
                 /\ task'[t].pc = "errMail"
                 /\ task'[t].mails = <<>>
                 /\ db' = db]_vars
    /\ [](\A t \in Tasks :
             ProcessingFailed(t) =>
                 /\ task[t].outcome = "FatalError"
                 /\ task[t].wrote = 0
                 /\ task[t].pc = "errMail" => task[t].mails = <<>> /\ StoreUntouched(t)
                 /\ task[t].pc # "errMail" =>
                        /\ Over(t)
                        /\ Len(task[t].mails) = 1
                        /\ task[t].mails[1].kind = "error"
                 /\ Ended(t) => StoreUntouched(t))

\* a fetched body the pattern with its capture group does not match ended
\* the task with one error e-mail, under a non-empty global ignore list
C13_Witness ==
    \E t \in Tasks :
        /\ Ended(t)
        /\ ProcessingFailed(t)
        /\ config.Watches[t].Pattern = "a(.*)"
        /\ task[t].statusCode = 200
        /\ task[t].body = Bytes(<<"b">>)
        /\ config.HTTPErrorsToIgnore # <<>>
        /\ Len(task[t].mails) = 1

\* the watch at index t was passed by the loop without a goroutine
Skipped(t) ==
    /\ t < loopIdx
    /\ ~config.Watches[t].Disabled
    /\ task[t].pc = "idle"

\* C14: when the context is done while a task waits in the backoff, the
\* wait ends with GetRequest returning the context's error and without a
\* further attempt; processWatch returns that error to the scheduler and
\* nothing is written; when Acquire fails because the context is done, the
\* watch is passed over and no goroutine is started for it.
C14_Cancellation ==
    /\ [][\A t \in Tasks :
             (task[t].pc = "backoff" /\ ctxDone /\ task'[t] # task[t]) =>
                 /\ task'[t].pc = "ret"
                 /\ task'[t].err = CanceledErr
                 /\ task'[t].attempts = task[t].attempts
                 /\ task'[t].waited = task[t].waited]_vars
    /\ [](\A t \in Tasks : FetchFailed(t, {"canceled"}) => EndedFatally(t))
    /\ [][\A t \in Tasks :
             (/\ t = loopIdx /\ loopIdx' # loopIdx
              /\ ~config.Watches[t].Disabled /\ ~CanAcquire) =>
                 /\ ctxDone
                 /\ task' = task
                 /\ wgCount' = wgCount
                 /\ semCur' = semCur]_vars
    /\ [][\A t \in Tasks :
             (task[t].pc = "idle" /\ task'[t].pc # "idle") => t = loopIdx /\ CanAcquire]_vars

\* a task left its backoff with the context's error and ended with one
\* error e-mail, and another watch was passed over
C14_Witness ==
    /\ ctxDone
    /\ \E t, u \in Tasks :
           /\ Ended(t)
           /\ task[t].err = CanceledErr
           /\ task[t].outcome = "FatalError"
           /\ Len(task[t].mails) = 1
           /\ Skipped(u)

\* what holds of C15: a successful attempt is the last step of the loop, and
\* the error GetRequest holds changes only with an attempt
C15_StopsAtSuccess ==
    [][\A t \in Tasks :
          /\ (task'[t].attempts = task[t].attempts + 1 /\ task'[t].err = NoErr) =>
                 task'[t].pc = "ret"
          /\ (task[t].pc \in {"loop", "backoff"} /\ task'[t].err # task[t].err) =>
                 task'[t].attempts = task[t].attempts + 1
          /\ (task[t].pc = "ret" /\ task'[t] # task[t]) =>
                 /\ task'[t].pc \notin {"loop", "backoff"}
                 /\ task[t].err # NoErr =>
                        task'[t].outcome =
                            OnFetchError(config.Watches[t], task[t].err).outcome]_vars

\* C15 as stated: what GetRequest returns is the result of its last attempt:
\* the values of the first attempt that succeeded, or, when none succeeded,
\* the error of the last of the configured attempts.
C15_LastAttempt ==
    \A t \in Tasks :
        Returned_GetRequest(t) =>
            /\ task[t].attempts >= 1
            /\ task[t].err = NoErr =>
                   /\ task[t].statusCode = 200
                   /\ ~task[t].body.isNil
            /\ task[t].err # NoErr => task[t].attempts = config.Retries

\* the loop of run() is over and wg.Wait() has returned
LoopOver == runPc = "save" \/ (runPc = "returned" /\ runErr \in {"nil", "save"})

\* no enabled watch has the URL of watch t
NoEnabledTwin(t) ==
    \A u \in Tasks : URLOf(u) = URLOf(t) => config.Watches[u].Disabled

\* C16: a goroutine is started for a watch only by the loop at the index of
\* the watch, in the order of the list, and never a second time; when the
\* loop is over every enabled watch has had its one goroutine; a disabled
\* watch has no goroutine, so it is never fetched and never notified about,
\* and no goroutine writes the entry of its URL.
C16_OneTaskPerWatch ==
    /\ [](\A t \in Tasks :
             /\ t >= loopIdx => task[t].pc = "idle"
             /\ (loopIdx = 0 \/ config.Watches[t].Disabled) => task[t] = IdleTask
             /\ (LoopOver /\ ~config.Watches[t].Disabled) =>
                    task[t].pc \in {"deferRelease", "exited"})
    /\ [][\A t \in Tasks :
             /\ (task[t].pc = "idle" /\ task'[t].pc # "idle") =>
                    /\ t = loopIdx
                    /\ loopIdx' = loopIdx + 1
                    /\ ~config.Watches[t].Disabled
                    /\ task'[t].pc = "start"
             /\ task[t].pc # "idle" => task'[t].pc \notin {"idle"}
             /\ task[t].pc \notin {"idle", "start"} => task'[t].pc # "start"
             /\ (runPc = "loop" /\ config.Watches[t].Disabled /\ NoEnabledTwin(t)) =>
                    db'[URLOf(t)] = db[URLOf(t)]]_vars

\* the run is over: the disabled watch never ran, the enabled watch next to
\* it ran to its end
C16_Witness ==
    /\ runPc = "returned"
    /\ runErr = "nil"
    /\ \E t, u \in Tasks :
           /\ config.Watches[t].Disabled
           /\ task[t] = IdleTask
           /\ ~config.Watches[u].Disabled
           /\ task[u].pc = "exited"
           /\ task[u].outcome # ""

\* the body contains one of the three signatures
HasSignature(body) ==
    \E sig \in {Sig504, Sig404, Sig503} : Contains(body, sig)

\* the response is one the claim calls a hard error
Hard(status, body) == status # 200 \/ Len(body) = 0 \/ HasSignature(body)

\* responses beyond those the runs meet: further statuses, headers and
\* bodies, with each signature whole, in part and in the wrong order
Responses ==
    { [Response(status, body) EXCEPT !.header = header] :
        status \in {200, 201, 404, 500},
        header \in {<<>>, <<"Server">>, <<"Server", "Date">>},
        body \in { <<>>, <<"a">>, <<"a", "b">>, Sig504, Sig503 \o <<"b">>,
                   <<"a">> \o Sig404, <<"404">>, <<"Not Found", "404">>,
                   <<"404", "a", "Not Found">> } }

\* fetchURL on each response of Responses: a hard error with the status,
\* headers and body of the response, or the response as it is
ClassifiesResponses ==
    \A r \in Responses :
        LET res == fetchURL(r)
        IN  IF Hard(r.status, r.body)
            THEN /\ res.err = [kind |-> "invalid", StatusCode |-> r.status,
                               Header |-> r.header, Body |-> Bytes(r.body)]
                 /\ res.statusCode = -1
                 /\ res.body = NilBytes
            ELSE /\ res.err = NoErr
                 /\ res.statusCode = r.status
                 /\ res.header = r.header
                 /\ res.body = Bytes(r.body)

\* C17: fetchURL returns a hard error exactly for a response whose status is
\* not 200, whose body is empty or whose body contains a signature; the
\* error carries status, headers and body of the response; every other
\* response is returned as it is, with a nil error. This for the responses
\* of Responses, and for what every attempt of a run has returned.
C17_Classification ==
    /\ ClassifiesResponses
    /\ \A t \in Tasks :
           task[t].attempts >= 1 =>
               /\ task[t].err.kind = "invalid" =>
                      /\ Hard(task[t].err.StatusCode, task[t].err.Body.data)
                      /\ task[t].statusCode = -1
                      /\ task[t].body = NilBytes
               /\ task[t].err = NoErr =>
                      ~Hard(task[t].statusCode, task[t].body.data)

\* an attempt met a 200 with a body that holds a signature and returned the
\* hard error with that status and body
C17_Witness ==
    \E t \in Tasks :
        /\ Returned_GetRequest(t)
        /\ task[t].err.kind = "invalid"
        /\ task[t].err.StatusCode = 200
        /\ task[t].err.Header = <<"Server">>
        /\ HasSignature(task[t].err.Body.data)

\* C18 as stated: for every value of retries, GetRequest returns a nil error
\* only after an attempt that was answered with status 200 and a non-empty
\* body, and processWatch compares and stores only a body that was fetched.
C18_SuccessIsFetched ==
    \A t \in Tasks :
        /\ (Returned_GetRequest(t) /\ task[t].err = NoErr) =>
               /\ task[t].attempts >= 1
               /\ task[t].statusCode = 200
               /\ Len(task[t].body.data) > 0
        /\ task[t].pc \in {"mailChange", "store"} => task[t].statusCode = 200

\* the loop of run() is in sem.Acquire for the watch at loopIdx
InAcquire ==
    /\ runPc = "loop"
    /\ loopIdx \in Tasks
    /\ ~config.Watches[loopIdx].Disabled

\* C19 as stated, in its safety form: for every value of ParallelChecks the
\* run can go on until it has returned; in particular, whenever the loop
\* waits in Acquire, a slot is free or a goroutine holds one that it has yet
\* to release.
C19_Terminates ==
    /\ InAcquire => (CanAcquire \/ InFlight # {})
    /\ runPc # "returned" => ENABLED Next

\* the goroutines that have not yet called wg.Done()
Unsignalled == {t \in Tasks : task[t].pc \notin {"idle", "deferRelease", "exited"}}

\* each goroutine holds one slot from its start to its sem.Release, and
\* counts in wg from its start to its wg.Done(); a watch without goroutine
\* holds and counts nothing
Balanced ==
    /\ semCur = Cardinality(InFlight)
    /\ wgCount = Cardinality(Unsignalled)

\* C20 as stated: slots and wait-group are balanced on every path, and when
\* wg.Wait() has returned all slots are free.
C20_Original ==
    /\ Balanced
    /\ LoopOver => semCur = 0

\* C20 amended: slots and wait-group are balanced on every path; when
\* wg.Wait() has returned every goroutine has called wg.Done(), and a slot
\* that is still taken is held by a goroutine whose only step left is its
\* sem.Release; the slots are all free once these goroutines have exited.
C20_Accounting ==
    /\ Balanced
    /\ LoopOver =>
           /\ wgCount = 0
           /\ \A t \in Tasks : task[t].pc \in {"idle", "deferRelease", "exited"}
    /\ (\A t \in Tasks : task[t].pc \in {"idle", "exited"}) => semCur = 0

\* wg.Wait() has returned while a goroutine still holds its slot, next to a
\* watch that was passed over when Acquire failed
C20_Witness ==
    /\ runPc = "save"
    /\ semCur > 0
    /\ wgCount = 0
    /\ \E u \in Tasks : Skipped(u)

====
